---- MODULE Spec2Model ----
(***************************************************************************)
(* Section merging of gold (gold/merge.h): Output_merge_base, the map from *)
(* input locations to output offsets; Output_merge_data, the merger of     *)
(* fixed-size constants; Output_merge_string<Char_type>, the merger of     *)
(* null-terminated strings backed by a Stringpool.                         *)
(*                                                                         *)
(* merge.h declares the classes and defines their constructors and         *)
(* Output_merge_data::constant.  The bodies of the other member functions  *)
(* (merge.cc) and the Stringpool (stringpool.h/.cc) are not part of the    *)
(* source tree at hand; they are modelled from spec.md sections 3 and 4,   *)
(* within the signatures merge.h declares.                                 *)
(***************************************************************************)
EXTENDS Integers, Sequences, FiniteSets, TLC

(***************************************************************************)
(* Bounds of the model.                                                    *)
(***************************************************************************)
\* Entries (constants, or code units of strings) in one input section.
MaxUnits == 3

\* The input objects and their mergeable sections.
Objects == {"A", "B"}
Sections == {[object |-> "A", shndx |-> 1], [object |-> "B", shndx |-> 2]}
NoSection == [object |-> "-", shndx |-> 0]
\* The merger instances; the entry sizes / sizeof(Char_type) they are built with.
Insts == {1, 2}
EntSizes == {1, 2}
\* Output section addresses handed to do_output_address.
Bases == {16}

(***************************************************************************)
(* Bytes, entries and input sections.                                      *)
(***************************************************************************)
\* The constants, and the code units, input sections are drawn from.  The
\* non-zero code units of width 2 hold a zero byte, so that a zero byte and a
\* zero code unit differ.
ConstantsOf(es) == IF es = 1 THEN {<<0>>, <<1>>} ELSE {<<1, 0>>, <<0, 1>>}
CodeUnitsOf(W) ==
  IF W = 1 THEN {<<0>>, <<1>>, <<2>>} ELSE {<<0, 0>>, <<1, 0>>, <<0, 1>>}
UnitsOf(kind, es) == IF kind = "data" THEN ConstantsOf(es) ELSE CodeUnitsOf(es)

RECURSIVE Flatten(_)
Flatten(us) == IF us = <<>> THEN <<>> ELSE Head(us) \o Flatten(Tail(us))

\* The contents an input section may have: up to n whole entries, or at most
\* one entry followed by a stray byte (a size that is no multiple of entsize).
Inputs(kind, es, n) ==
  LET whole == UNION {[1..k -> UnitsOf(kind, es)] : k \in 0..n}
  IN  {Flatten(us) : us \in whole}
        \cup (IF es = 1 THEN {}
              ELSE {Flatten(us) \o <<1>> : us \in {w \in whole : Len(w) <= 1}})

\* bytes[off+1 .. off+n], the n bytes at byte offset off.
Bytes(bytes, off, n) == SubSeq(bytes, off + 1, off + n)

IsZero(unit) == \A j \in 1..Len(unit) : unit[j] = 0

\* A string section as the string merger expects it: every string in it is
\* terminated (spec.md 3, InternedString: a null-terminated sequence).
Terminated(bytes, W) ==
  IF Len(bytes) % W # 0 THEN TRUE
  ELSE IF Len(bytes) = 0 THEN TRUE
  ELSE IsZero(Bytes(bytes, Len(bytes) - W, W))

(***************************************************************************)
(* Output_merge_base                                                       *)
(***************************************************************************)
\* A key that leaves the offset out.
Merge_key_no_offset(object, shndx, offset) ==
  [object |-> object, shndx |-> shndx, offset |-> 0]

\* Merge_key: the object, the section index, the offset in the section.
Merge_key(object, shndx, offset) ==
  [object |-> object, shndx |-> shndx, offset |-> offset]

\* merge_map_ is a function from Merge_key to output offset.
EmptyMap == [k \in {} |-> 0]

\* add_mapping: a key is inserted once; inserting it again is a programming
\* error caught by assertion (ok = FALSE), the map staying as it was.
add_mapping(mm, object, shndx, offset, output_offset) ==
  LET mk == Merge_key(object, shndx, offset)
  IN  IF mk \in DOMAIN mm
      THEN [map |-> mm, ok |-> FALSE]
      ELSE [map |-> [k \in DOMAIN mm \cup {mk} |->
                       IF k = mk THEN output_offset ELSE mm[k]],
            ok |-> TRUE]

\* do_output_address: the result of a lookup that fails leaves *poutput
\* unwritten; the model gives it the value NoAddress.
NoAddress == -1

do_output_address(mm, object, shndx, offset, output_section_address) ==
  LET mk == Merge_key(object, shndx, offset)
  IN  IF mk \in DOMAIN mm
      THEN [found |-> TRUE, output |-> output_section_address + mm[mk]]
      ELSE [found |-> FALSE, output |-> NoAddress]

(***************************************************************************)
(* Output_merge_data                                                       *)
(***************************************************************************)
\* A merger of either class, as constructed.  kind is "data" or "string";
\* phase, data_size and the merged_strings_ of a data merger are not members
\* of Output_merge_data; phase is spec.md 4.1's state machine.
NewMerger(kind, es) ==
  [kind |-> kind, entsize_ |-> es, merge_map_ |-> EmptyMap,
   p_ |-> <<>>, len_ |-> 0, hashtable_ |-> {},
   merged_strings_ |-> <<>>,
   phase |-> "Collecting", data_size |-> 0]

\* entsize() returning the size of a byte.
entsize_one(m) == 1

\* Output_merge_base::entsize().
entsize(m) == m.entsize_

\* The constructor initialising len_ to 1.
Output_merge_data_len_one(es) == [NewMerger("data", es) EXCEPT !.len_ = 1]

\* The constructor: p_(NULL), len_(0), alc_(0), an empty hashtable_.
Output_merge_data(es) == NewMerger("data", es)

\* constant() returning p_ without adding k.
constant_without_k(m, k) == Bytes(m.p_, 0, m.entsize_)

\* constant(k): gold_assert(k >= 0 && k < len_); return p_ + k.
constant_ok(m, k) == k >= 0 /\ k < m.len_
constant(m, k) == Bytes(m.p_, k, entsize(m))

\* Merge_data_eq: two keys are equal when the entsize bytes they point at are.
Merge_data_eq(m, k1, k2) == constant(m, k1) = constant(m, k2)

\* add_constant: copy the constant to the end of the buffer, look its key up
\* in the hash table; an equal entry's key is reused and the copy dropped,
\* otherwise the key is inserted.  Returns the merger, the key, and whether
\* every assertion of constant() held.
add_constant(m, bytes) ==
  LET k     == m.len_
      m1    == [m EXCEPT !.p_ = SubSeq(m.p_, 1, m.len_) \o bytes,
                         !.len_ = m.len_ + entsize(m)]
      same  == {k2 \in m1.hashtable_ : Merge_data_eq(m1, k2, k)}
      asserts == constant_ok(m1, k)
                   /\ \A k2 \in m1.hashtable_ : constant_ok(m1, k2)
  IN  IF same # {}
      THEN [m |-> [m1 EXCEPT !.len_ = m.len_],
            key |-> CHOOSE k2 \in same : TRUE, ok |-> asserts]
      ELSE [m |-> [m1 EXCEPT !.hashtable_ = m1.hashtable_ \cup {k}],
            key |-> k, ok |-> asserts]

\* The loop of Output_merge_data::do_add_input_section from byte offset i on:
\* add_constant and add_mapping for each entsize-sized slot.
RECURSIVE data_add_slots(_, _, _, _)
data_add_slots(m, sec, bytes, i) ==
  IF i >= Len(bytes) THEN [m |-> m, ok |-> TRUE]
  ELSE LET ac == add_constant(m, Bytes(bytes, i, entsize(m)))
           am == add_mapping(ac.m.merge_map_, sec.object, sec.shndx, i, ac.key)
           m2 == [ac.m EXCEPT !.merge_map_ = am.map]
       IN  IF ~(ac.ok /\ am.ok) THEN [m |-> m2, ok |-> FALSE]
           ELSE data_add_slots(m2, sec, bytes, i + entsize(m))

\* Output_merge_data::do_add_input_section.  A section whose size is no
\* multiple of entsize is rejected (returns false) and nothing is added.
data_add_input_section(m, sec, bytes) ==
  IF Len(bytes) % entsize(m) # 0
  THEN [m |-> m, ret |-> FALSE, ok |-> TRUE]
  ELSE LET r == data_add_slots(m, sec, bytes, 0)
       IN  [m |-> r.m, ret |-> TRUE, ok |-> r.ok]

\* Output_merge_data::do_set_address: set_data_size(len_).
data_set_address(m) ==
  [m EXCEPT !.data_size = m.len_, !.phase = "Addressed"]

\* Output_merge_data::do_write: the len_ accumulated bytes.
data_write(m) == SubSeq(m.p_, 1, m.len_)

(***************************************************************************)
(* Stringpool_template<Char_type> (modelled from spec.md 3 and 4.3).       *)
(* A string is the sequence of its code units, the terminator included; a  *)
(* code unit is the sequence of its W bytes.  The pool is built with       *)
(* set_no_zero_null(): the empty string is an entry like any other.        *)
(***************************************************************************)
NoOffsets == [s \in {} |-> 0]

NewStringpool == [strings |-> {}, offsets |-> NoOffsets, strtab_size |-> 0]

\* Stringpool::add: intern by content; the canonical copy stands for the string.
Stringpool_add(sp, s) == [sp EXCEPT !.strings = sp.strings \cup {s}]

\* The value of a code unit (least significant byte first).
RECURSIVE UnitVal(_)
UnitVal(u) == IF u = <<>> THEN 0 ELSE Head(u) + 256 * UnitVal(Tail(u))

\* A test for a prefix in place of a suffix.
IsPrefix(s, t) == Len(s) <= Len(t) /\ SubSeq(t, 1, Len(s)) = s

\* s is a suffix of t (both in code units).
IsSuffix(s, t) ==
  Len(s) <= Len(t) /\ SubSeq(t, Len(t) - Len(s) + 1, Len(t)) = s

\* A comparison that orders no two strings.
string_before_never(s, t) == FALSE

\* The order of the pool's storage: strings are compared from their ends; at
\* the first differing code unit the larger sorts first, and of two strings
\* one of which is a suffix of the other the longer sorts first.
string_before(s, t) ==
  LET n    == IF Len(s) < Len(t) THEN Len(s) ELSE Len(t)
      diff == {j \in 1..n : s[Len(s) - j + 1] # t[Len(t) - j + 1]}
  IN  IF diff = {} THEN Len(s) > Len(t)
      ELSE LET j == CHOOSE x \in diff : \A y \in diff : x <= y
           IN  UnitVal(s[Len(s) - j + 1]) > UnitVal(t[Len(t) - j + 1])

\* The orders a sort by string_before may leave the strings S in, whatever
\* order the pool's hash table hands them over in: no string stands after one
\* it sorts before.
RECURSIVE SortedOrders(_)
SortedOrders(S) ==
  IF S = {} THEN {<<>>}
  ELSE UNION {{<<m>> \o rest : rest \in SortedOrders(S \ {m})} :
                m \in {x \in S : \A y \in S : ~string_before(y, x)}}

\* The pass over the sorted strings from index i on: a string that is a
\* suffix of the one before it lies inside that one's storage, any other
\* string gets storage of its own at the running offset.
RECURSIVE assign_offsets(_, _, _, _, _)
assign_offsets(order, i, W, offs, offset) ==
  IF i > Len(order) THEN [offsets |-> offs, strtab_size |-> offset]
  ELSE LET s      == order[i]
           shared == i > 1 /\ IsSuffix(s, order[i - 1])
           this   == IF shared
                     THEN offs[order[i - 1]] + W * (Len(order[i - 1]) - Len(s))
                     ELSE offset
           offs2  == [x \in DOMAIN offs \cup {s} |->
                        IF x = s THEN this ELSE offs[x]]
       IN  assign_offsets(order, i + 1, W, offs2,
                          IF shared THEN offset ELSE offset + W * Len(s))

\* Stringpool::set_string_offsets, for the order the sort produced.
set_string_offsets(sp, order, W) ==
  LET r == assign_offsets(order, 1, W, NoOffsets, 0)
  IN  [sp EXCEPT !.offsets = r.offsets, !.strtab_size = r.strtab_size]

\* Stringpool::write: strtab_size bytes, every string copied to its offset.
Stringpool_write(sp, W) ==
  [p \in 1..sp.strtab_size |->
     LET covering == {s \in DOMAIN sp.offsets :
                        sp.offsets[s] < p /\ p <= sp.offsets[s] + W * Len(s)}
     IN  IF covering = {} THEN 0
         ELSE LET s == CHOOSE x \in covering : TRUE
              IN  Flatten(s)[p - sp.offsets[s]]]

(***************************************************************************)
(* Output_merge_string<Char_type>                                          *)
(***************************************************************************)
\* The constructor: gold_assert(addralign <= sizeof(Char_type)); the entry
\* size of the base is sizeof(Char_type).
\* The assertion comparing with less-than.
Output_merge_string_ok_less(W, addralign) == addralign < W

Output_merge_string_ok(W, addralign) == addralign <= W
Output_merge_string(W, addralign) == NewMerger("string", W)

\* The constructor initialising offset from shndxa.
Merged_string_shndx(object, shndx, offset, string) ==
  [object |-> object, shndx |-> shndx, offset |-> shndx, string |-> string]

Merged_string(object, shndx, offset, string) ==
  [object |-> object, shndx |-> shndx, offset |-> offset, string |-> string]

\* The code units of bytes from byte offset i up to and including the next
\* zero code unit; <<>> when no zero code unit follows.
RECURSIVE next_string(_, _, _)
next_string(bytes, W, i) ==
  IF i + W > Len(bytes) THEN <<>>
  ELSE LET u == Bytes(bytes, i, W)
       IN  IF IsZero(u) THEN <<u>>
           ELSE LET rest == next_string(bytes, W, i + W)
                IN  IF rest = <<>> THEN <<>> ELSE <<u>> \o rest

\* The loop of Output_merge_string::do_add_input_section from byte offset i
\* on: each string, its terminator included, goes into the pool, and a
\* Merged_string remembers where it came from.
RECURSIVE string_add_strings(_, _, _, _, _)
string_add_strings(m, sp, sec, bytes, i) ==
  LET s == next_string(bytes, entsize(m), i)
  IN  IF s = <<>> THEN [m |-> m, sp |-> sp]
      ELSE string_add_strings(
             [m EXCEPT !.merged_strings_ =
                Append(m.merged_strings_,
                       Merged_string(sec.object, sec.shndx, i, s))],
             Stringpool_add(sp, s), sec, bytes, i + entsize(m) * Len(s))

\* Output_merge_string::do_add_input_section.  A section whose size is no
\* multiple of sizeof(Char_type) is rejected and nothing is added.
string_add_input_section(m, sp, sec, bytes) ==
  IF Len(bytes) % entsize(m) # 0
  THEN [m |-> m, sp |-> sp, ret |-> FALSE, ok |-> TRUE]
  ELSE LET r == string_add_strings(m, sp, sec, bytes, 0)
       IN  [m |-> r.m, sp |-> r.sp, ret |-> TRUE, ok |-> TRUE]

\* The loop of Output_merge_string::do_set_address over merged_strings_ from
\* index i on: add_mapping to the string's offset in the pool.
RECURSIVE string_add_mappings(_, _, _)
string_add_mappings(m, sp, i) ==
  IF i > Len(m.merged_strings_) THEN [m |-> m, ok |-> TRUE]
  ELSE LET ms == m.merged_strings_[i]
           am == add_mapping(m.merge_map_, ms.object, ms.shndx, ms.offset,
                             sp.offsets[ms.string])
           m2 == [m EXCEPT !.merge_map_ = am.map]
       IN  IF ~am.ok THEN [m |-> m2, ok |-> FALSE]
           ELSE string_add_mappings(m2, sp, i + 1)

\* Output_merge_string::do_set_address: fix the pool's offsets, record the
\* mapping of every Merged_string, set_data_size(get_strtab_size()).
string_set_address(m, sp, order) ==
  LET sp2 == set_string_offsets(sp, order, entsize(m))
      r   == string_add_mappings(m, sp2, 1)
  IN  [m |-> [r.m EXCEPT !.data_size = sp2.strtab_size,
                         !.phase = "Addressed"],
       sp |-> sp2, ok |-> r.ok]

\* Output_merge_string::do_write.
string_write(m, sp) == Stringpool_write(sp, entsize(m))

(***************************************************************************)
(* The operations of a merger of either class.  spec.md 4.1 and 7: adding  *)
(* a section after the address is set, and writing before it is set, are   *)
(* programming errors caught by assertion (ok = FALSE), the operation      *)
(* having no effect.                                                       *)
(***************************************************************************)
add_input_section(m, sp, sec, bytes) ==
  IF m.phase # "Collecting"
  THEN [m |-> m, sp |-> sp, ret |-> FALSE, ok |-> FALSE]
  ELSE IF m.kind = "data"
       THEN LET r == data_add_input_section(m, sec, bytes)
            IN  [m |-> r.m, sp |-> sp, ret |-> r.ret, ok |-> r.ok]
       ELSE string_add_input_section(m, sp, sec, bytes)

set_address(m, sp, order) ==
  IF m.kind = "data"
  THEN [m |-> data_set_address(m), sp |-> sp, ok |-> TRUE]
  ELSE string_set_address(m, sp, order)

\* write without the check of the phase.
write_unchecked(m, sp) ==
  [bytes |-> IF m.kind = "data" THEN data_write(m) ELSE string_write(m, sp),
   ok |-> TRUE]

write(m, sp) ==
  IF m.phase # "Addressed"
  THEN [bytes |-> <<>>, ok |-> FALSE]
  ELSE [bytes |-> IF m.kind = "data" THEN data_write(m)
                  ELSE string_write(m, sp),
        ok |-> TRUE]

\* The orders the pool of a string merger may be laid out in at set_address.
Orders(m, sp) ==
  IF m.kind = "data" THEN {<<>>} ELSE SortedOrders(sp.strings)

(***************************************************************************)
(* The state.                                                              *)
(***************************************************************************)
VARIABLES
  merger,       \* merger[i]: the members of merger instance i
  stringpool_,  \* stringpool_[q]: the Stringpool q
  contents,     \* contents[sec]: the bytes of input section sec, once read
  file,         \* file[i]: what instance i wrote to the output file
  failed,       \* an assertion failed: the process is gone
  last,         \* the last call and what it returned
  hist,         \* hist[i]: the calls made on instance i, in order
  nat,          \* the running function of aarch64-fbsd-nat.c and its locals
  inferior,     \* the registers of the inferior, as the kernel holds them
  regcache      \* the registers as gdb's register cache holds them

vars == <<merger, stringpool_, contents, file, failed, last, hist,
          nat, inferior, regcache>>
mergevars == <<merger, stringpool_, contents, file, failed, last, hist>>
natvars == <<nat, inferior, regcache>>

(***************************************************************************)
(* gdb/aarch64-fbsd-nat.c: fetching and storing the registers of the       *)
(* inferior with ptrace.  Of each register set the model keeps the first   *)
(* and the last register; a register holds 0 or 1.                         *)
(***************************************************************************)
\* enum aarch64_regnum (aarch64-tdep.h): X0..X30, SP, PC, CPSR, V0..V31,
\* FPSR, FPCR.
AARCH64_X0_REGNUM == 0
AARCH64_CPSR_REGNUM == 33
AARCH64_V0_REGNUM == 34
AARCH64_FPCR_REGNUM == 67

\* The registers of struct reg and of struct fpreg the model keeps.
aarch64_fbsd_gregset == {AARCH64_X0_REGNUM, AARCH64_CPSR_REGNUM}
aarch64_fbsd_fpregset == {AARCH64_V0_REGNUM, AARCH64_FPCR_REGNUM}
RegVals == {0, 1}

\* The values of regnum the functions are called with: all registers, the
\* ends of the two ranges, and a register behind both.
Regnums == {-1, AARCH64_X0_REGNUM, AARCH64_CPSR_REGNUM, AARCH64_V0_REGNUM,
            AARCH64_FPCR_REGNUM, AARCH64_FPCR_REGNUM + 1}

\* Determine if PT_GETREGS fetches REGNUM.
getregs_supplies(regnum) ==
  regnum >= AARCH64_X0_REGNUM /\ regnum <= AARCH64_CPSR_REGNUM

\* Determine if PT_GETFPREGS fetches REGNUM.
getfpregs_supplies(regnum) ==
  regnum >= AARCH64_V0_REGNUM /\ regnum <= AARCH64_FPCR_REGNUM

\* regcache->supply_regset (regset, regnum, buf): the register regnum of the
\* set, or with regnum -1 every register of it, goes from buf to the cache.
supply_regset(rc, regset, regnum, buf) ==
  [r \in DOMAIN rc |->
     IF r \in regset /\ (regnum = -1 \/ regnum = r) THEN buf[r] ELSE rc[r]]

\* regcache->collect_regset (regset, regnum, buf): the same from the cache
\* to buf.
collect_regset(rc, regset, regnum, buf) ==
  [r \in DOMAIN buf |->
     IF r \in regset /\ (regnum = -1 \/ regnum = r) THEN rc[r] ELSE buf[r]]

\* A struct reg or struct fpreg nothing was written to.
Uninitialized == [r \in {} |-> 0]

\* No function of the file is running, none has run.
NatIdle ==
  [op |-> "idle", pc |-> "idle", regnum |-> -1,
   regs |-> Uninitialized, fpregs |-> Uninitialized, ptrace |-> <<>>]

\* ptrace returns 0, or -1 with errno set.
PtraceResults == {0, -1}

\* Calls on one instance (a bound: sections may be offered again and again).
MaxOps == 4
PairOps == 3

\* The largest input offset the relocation pass asks output_address about.
MaxQueryOffset == 2

NoMerger == NewMerger("none", 1)
Constructed(i) == merger[i].kind # "none"

\* One Stringpool shared by all instances.
PoolOf_shared(i) == 1

\* Each Output_merge_string holds its Stringpool by value: instance i's pool
\* is its own.
PoolOf(i) == i

Call(op, i, sec, offset, base, ret, val) ==
  [op |-> op, inst |-> i, sec |-> sec, offset |-> offset, base |-> base,
   ret |-> ret, val |-> val]

Unread == [read |-> FALSE, bytes |-> <<>>]

\* The contents a section offered to merger m may have.
Acceptable(m, bytes) == m.kind = "string" => Terminated(bytes, m.entsize_)
InputsFor(m, n) == {b \in Inputs(m.kind, m.entsize_, n) : Acceptable(m, b)}

AddrAligns == {1, 2, 4}

\* One merger, constructed; no input section read yet.
Init ==
  /\ \E kind \in {"data", "string"}, es \in EntSizes, addralign \in AddrAligns :
       /\ merger = [i \in Insts |->
                      IF i # 1 THEN NoMerger
                      ELSE IF kind = "data" THEN Output_merge_data(es)
                      ELSE Output_merge_string(es, addralign)]
       /\ failed = (kind = "string" /\ ~Output_merge_string_ok(es, addralign))
       /\ last = Call("new", 1, NoSection, 0, es, ~failed, addralign)
  /\ stringpool_ = [q \in Insts |-> NewStringpool]
  /\ contents = [sec \in Sections |-> Unread]
  /\ file = [i \in Insts |-> [written |-> FALSE, bytes |-> <<>>]]
  /\ hist = [i \in Insts |-> <<>>]
  /\ nat = NatIdle
  /\ inferior = [gregs  |-> [r \in aarch64_fbsd_gregset |-> 0],
                 fpregs |-> [r \in aarch64_fbsd_fpregset |-> 0]]
  /\ regcache = [r \in aarch64_fbsd_gregset \cup aarch64_fbsd_fpregset |-> 0]

\* Two mergers of entry size 1, constructed with a legal alignment; the input
\* sections are as the input files hold them.
PairMergers == {Output_merge_data(1), Output_merge_string(1, 1)}
PairInputs == {<<>>, <<0>>, <<1>>, <<1, 0>>}

InitPair ==
  /\ \E m1 \in PairMergers, m2 \in PairMergers :
       merger = [i \in Insts |-> IF i = 1 THEN m1 ELSE m2]
  /\ failed = FALSE
  /\ last = Call("new", 2, NoSection, 0, 0, TRUE, 1)
  /\ stringpool_ = [q \in Insts |-> NewStringpool]
  /\ contents \in [Sections -> {[read |-> TRUE, bytes |-> b] : b \in PairInputs}]
  /\ file = [i \in Insts |-> [written |-> FALSE, bytes |-> <<>>]]
  /\ hist = [i \in Insts |-> <<>>]
  /\ nat = NatIdle
  /\ inferior = [gregs  |-> [r \in aarch64_fbsd_gregset |-> 0],
                 fpregs |-> [r \in aarch64_fbsd_fpregset |-> 0]]
  /\ regcache = [r \in aarch64_fbsd_gregset \cup aarch64_fbsd_fpregset |-> 0]

\* The calls made on one instance are bounded: by MaxOps when one merger is
\* driven, by PairOps when two are.
CallBound == IF \A i \in Insts : Constructed(i) THEN PairOps ELSE MaxOps

CanCall(i) == ~failed /\ Constructed(i) /\ Len(hist[i]) < CallBound

\* add_input_section(object, shndx) on instance i.
AddSection(i, sec) ==
  /\ CanCall(i)
  /\ \E bytes \in (IF contents[sec].read THEN {contents[sec].bytes}
                   ELSE InputsFor(merger[i], MaxUnits)) :
       /\ Acceptable(merger[i], bytes)
       /\ LET r == add_input_section(merger[i], stringpool_[PoolOf(i)],
                                     sec, bytes)
          IN  /\ merger' = [merger EXCEPT ![i] = r.m]
              /\ stringpool_' = [stringpool_ EXCEPT ![PoolOf(i)] = r.sp]
              /\ failed' = ~r.ok
              /\ last' = Call("add", i, sec, 0, 0, r.ret, 0)
       /\ contents' = [contents EXCEPT ![sec] = [read |-> TRUE, bytes |-> bytes]]
  /\ hist' = [hist EXCEPT ![i] = Append(@, [op |-> "add", sec |-> sec])]
  /\ UNCHANGED <<file, natvars>>

\* set_address releasing what was collected.
Finalize_releasing(i) ==
  /\ CanCall(i)
  /\ merger[i].phase = "Collecting"
  /\ merger' = [merger EXCEPT ![i] =
                  [NewMerger(@.kind, @.entsize_) EXCEPT !.phase = "Addressed"]]
  /\ failed' = FALSE
  /\ last' = Call("set_address", i, NoSection, 0, 0, TRUE, 0)
  /\ hist' = [hist EXCEPT ![i] = Append(@, [op |-> "set_address", sec |-> NoSection])]
  /\ UNCHANGED <<stringpool_, contents, file, natvars>>

\* set_address on instance i, which the layout calls once per merger.
Finalize(i) ==
  /\ CanCall(i)
  /\ merger[i].phase = "Collecting"
  /\ \E order \in Orders(merger[i], stringpool_[PoolOf(i)]) :
       LET r == set_address(merger[i], stringpool_[PoolOf(i)], order)
       IN  /\ merger' = [merger EXCEPT ![i] = r.m]
           /\ stringpool_' = [stringpool_ EXCEPT ![PoolOf(i)] = r.sp]
           /\ failed' = ~r.ok
           /\ last' = Call("set_address", i, NoSection, 0, 0, r.ok,
                           r.m.data_size)
  /\ hist' = [hist EXCEPT ![i] = Append(@, [op |-> "set_address", sec |-> NoSection])]
  /\ UNCHANGED <<contents, file, natvars>>

\* write on instance i.
Write(i) ==
  /\ CanCall(i)
  /\ LET r == write(merger[i], stringpool_[PoolOf(i)])
     IN  /\ file' = IF r.ok
                    THEN [file EXCEPT ![i] = [written |-> TRUE, bytes |-> r.bytes]]
                    ELSE file
         /\ failed' = ~r.ok
         /\ last' = Call("write", i, NoSection, 0, 0, r.ok, Len(r.bytes))
  /\ hist' = [hist EXCEPT ![i] = Append(@, [op |-> "write", sec |-> NoSection])]
  /\ UNCHANGED <<merger, stringpool_, contents, natvars>>

\* output_address looking the key up with the map's operator[], which inserts
\* a key it does not find.
Translate_inserting(i, sec, offset, base) ==
  /\ ~failed /\ Constructed(i)
  /\ LET mk == [object |-> sec.object, shndx |-> sec.shndx, offset |-> offset]
         mm == merger[i].merge_map_
         m2 == [k \in DOMAIN mm \cup {mk} |-> IF k \in DOMAIN mm THEN mm[k] ELSE 0]
     IN  /\ merger' = [merger EXCEPT ![i].merge_map_ = m2]
         /\ last' = Call("output_address", i, sec, offset, base, TRUE, base + m2[mk])
  /\ UNCHANGED <<stringpool_, contents, file, failed, hist, natvars>>

\* output_address on instance i: a const member function.
Translate(i, sec, offset, base) ==
  /\ ~failed /\ Constructed(i)
  /\ LET r == do_output_address(merger[i].merge_map_, sec.object, sec.shndx,
                                offset, base)
     IN  last' = Call("output_address", i, sec, offset, base, r.found, r.output)
  /\ UNCHANGED <<merger, stringpool_, contents, file, failed, hist, natvars>>

Next ==
  \/ \E i \in Insts, sec \in Sections : AddSection(i, sec)
  \/ \E i \in Insts : Finalize(i)
  \/ \E i \in Insts : Write(i)
  \/ \E i \in Insts, sec \in Sections, offset \in 0..MaxQueryOffset,
        base \in Bases : Translate(i, sec, offset, base)

Spec == Init /\ [][Next]_vars

SpecPair == InitPair /\ [][Next]_vars

(***************************************************************************)
(* What was put in, read off the calls made and the input sections alone.  *)
(***************************************************************************)
Live == {i \in Insts : Constructed(i)}
SecBytes(sec) == contents[sec].bytes
Width(i) == merger[i].entsize_
Lookup(i, sec, offset, base) ==
  do_output_address(merger[i].merge_map_, sec.object, sec.shndx, offset, base)

\* The sections add_input_section was called with on instance i, and those
\* among them whose size is a multiple of the entry size.
AddedSections(i) ==
  {hist[i][j].sec : j \in {x \in 1..Len(hist[i]) : hist[i][x].op = "add"}}
AcceptedSections(i) ==
  {sec \in AddedSections(i) : Len(SecBytes(sec)) % Width(i) = 0}

\* The byte offset of the terminator of the string that starts at o.
TerminatorAt(bytes, W, o) ==
  LET zs == {e \in o..(Len(bytes) - W) :
               (e - o) % W = 0 /\ IsZero(Bytes(bytes, e, W))}
  IN  CHOOSE e \in zs : \A f \in zs : e <= f

\* The entries of the accepted sections: every entsize-byte slot of a constant
\* section; of a string section every string, from the start of the section
\* or from behind a terminator up to and including the next terminator.
Items(i) ==
  {[sec |-> sec, offset |-> o,
    size |-> IF merger[i].kind = "data" THEN Width(i)
             ELSE TerminatorAt(SecBytes(sec), Width(i), o) + Width(i) - o] :
     <<sec, o>> \in
       {<<sec, o>> \in AcceptedSections(i) \X (0..(MaxUnits * 2)) :
          /\ o < Len(SecBytes(sec))
          /\ o % Width(i) = 0
          /\ merger[i].kind = "string"
               => (o = 0 \/ IsZero(Bytes(SecBytes(sec), o - Width(i), Width(i))))}}
ItemBytes(it) == Bytes(SecBytes(it.sec), it.offset, it.size)

(***************************************************************************)
(* C1.  Constants of equal content get one output address, constants of    *)
(* different content get different ones: after any successful calls of     *)
(* add_input_section on a constant merger, output_address finds every      *)
(* input slot, and for two slots it returns the same address exactly when  *)
(* the slots hold the same entsize bytes.                                  *)
(***************************************************************************)
C1_ConstantDedup ==
  \A i \in Live :
    (merger[i].kind = "data" /\ ~failed) =>
      \A a \in Items(i), b \in Items(i), base \in Bases :
        LET ra == Lookup(i, a.sec, a.offset, base)
            rb == Lookup(i, b.sec, b.offset, base)
        IN  /\ ra.found /\ rb.found
            /\ (ItemBytes(a) = ItemBytes(b)) <=> (ra.output = rb.output)

\* Two objects hold the same constant, and a different constant was added too.
C1_Witness ==
  \E i \in Live :
    /\ merger[i].kind = "data" /\ ~failed
    /\ \E a \in Items(i), b \in Items(i), c \in Items(i) :
         /\ a.sec.object # b.sec.object
         /\ ItemBytes(a) = ItemBytes(b)
         /\ ItemBytes(c) # ItemBytes(a)

(***************************************************************************)
(* C2.  Round trip: once a merger has written its data, output_address     *)
(* finds every constant slot and every string that was added, and the      *)
(* bytes written at the address it returns (less the section address) are  *)
(* the input bytes of the slot, or of the string up to and including its   *)
(* terminator.                                                             *)
(***************************************************************************)
C2_RoundTrip ==
  \A i \in Live :
    (file[i].written /\ ~failed) =>
      \A it \in Items(i), base \in Bases :
        LET r == Lookup(i, it.sec, it.offset, base)
        IN  /\ r.found
            /\ r.output >= base
            /\ r.output - base + it.size <= Len(file[i].bytes)
            /\ Bytes(file[i].bytes, r.output - base, it.size) = ItemBytes(it)

\* A merger of two-byte characters wrote two strings or more.
C2_Witness ==
  \E i \in Live :
    /\ file[i].written /\ ~failed
    /\ merger[i].kind = "string" /\ Width(i) = 2
    /\ Cardinality({ItemBytes(it) : it \in Items(i)}) >= 2

(***************************************************************************)
(* C3.  output_address returns the section address plus the recorded       *)
(* output offset exactly when the (object, shndx, offset) asked about has  *)
(* a mapping; otherwise it returns false and gives no address.  This holds *)
(* before and after set_address, and the call changes no state.            *)
(***************************************************************************)
C3_Translate ==
  [][last'.op = "output_address" =>
       /\ UNCHANGED <<merger, stringpool_, contents, file, failed, hist>>
       /\ LET mm == merger[last'.inst].merge_map_
              mk == [object |-> last'.sec.object, shndx |-> last'.sec.shndx,
                     offset |-> last'.offset]
          IN  IF mk \in DOMAIN mm
              THEN last'.ret /\ last'.val = last'.base + mm[mk]
              ELSE ~last'.ret /\ last'.val = NoAddress]_vars

\* A lookup, after set_address, of an offset of an added section that has no
\* mapping.
C3_Witness ==
  /\ last.op = "output_address" /\ ~last.ret
  /\ merger[last.inst].phase = "Addressed"
  /\ \E k \in DOMAIN merger[last.inst].merge_map_ :
       k.object = last.sec.object /\ k.shndx = last.sec.shndx

(***************************************************************************)
(* C4.  A section whose size is no multiple of the entry size (entsize, or *)
(* the width of a character) is rejected and leaves the merger as it was:  *)
(* add_input_section returns false, the buffer, hash table, Merged_strings,*)
(* string pool and map are unchanged, and output_address still finds no    *)
(* offset of that section.                                                 *)
(***************************************************************************)
C4_Malformed ==
  [][(/\ last'.op = "add"
      /\ merger[last'.inst].phase = "Collecting"
      /\ Len(contents'[last'.sec].bytes) % merger[last'.inst].entsize_ # 0)
       => /\ ~last'.ret /\ ~failed'
          /\ merger' = merger /\ stringpool_' = stringpool_ /\ file' = file
          /\ \A offset \in 0..(MaxUnits * 2), base \in Bases :
               ~do_output_address(merger'[last'.inst].merge_map_,
                                  last'.sec.object, last'.sec.shndx,
                                  offset, base).found]_vars

\* A merger that holds entries rejected a section.
C4_Witness ==
  /\ last.op = "add" /\ ~last.ret /\ ~failed
  /\ Len(SecBytes(last.sec)) % Width(last.inst) # 0
  /\ (merger[last.inst].hashtable_ # {} \/ merger[last.inst].merged_strings_ # <<>>)

(***************************************************************************)
(* Strings, as sequences of code units, read off the input sections.       *)
(***************************************************************************)
StringOf(i, it) ==
  [j \in 1..(it.size \div Width(i)) |->
     Bytes(SecBytes(it.sec), it.offset + (j - 1) * Width(i), Width(i))]
AddedStrings(i) == {StringOf(i, it) : it \in Items(i)}

\* The output offset of an added string: what output_address returns for a
\* place it was added from, the section address being 0.
StringOffset(i, s) ==
  LET it == CHOOSE x \in Items(i) : StringOf(i, x) = s
  IN  Lookup(i, it.sec, it.offset, 0).output

EndsWith(t, s) == Len(s) <= Len(t) /\ SubSeq(t, Len(t) - Len(s) + 1, Len(t)) = s
ProperSuffix(s, t) == Len(s) < Len(t) /\ EndsWith(t, s)

\* The added strings that are a proper suffix of no added string.
Stored(i) ==
  {s \in AddedStrings(i) : \A t \in AddedStrings(i) : ~ProperSuffix(s, t)}

RECURSIVE SumLen(_)
SumLen(S) ==
  IF S = {} THEN 0
  ELSE LET s == CHOOSE x \in S : TRUE IN Len(s) + SumLen(S \ {s})

Settled(i) == merger[i].phase = "Addressed" /\ ~failed

(***************************************************************************)
(* C5 as claimed.  After set_address, a string S2 that is a proper suffix  *)
(* of an added string S1 lies at S1's offset plus W * (length(S1) -        *)
(* length(S2)), for every such S1, and the size is the total length of the *)
(* added strings that are a suffix of no other.                            *)
(***************************************************************************)
C5_EverySuffixOf ==
  \A i \in Live :
    (merger[i].kind = "string" /\ Settled(i)) =>
      /\ \A s1 \in AddedStrings(i), s2 \in AddedStrings(i) :
           ProperSuffix(s2, s1) =>
             StringOffset(i, s2)
               = StringOffset(i, s1) + Width(i) * (Len(s1) - Len(s2))
      /\ merger[i].data_size = Width(i) * SumLen(Stored(i))

(***************************************************************************)
(* C5 as amended.  After set_address, a string S2 that is a proper suffix  *)
(* of some added string lies inside the storage of one such string S1, at  *)
(* S1's offset plus W * (length(S1) - length(S2)), S1 being a suffix of no *)
(* other string; and the size is the total length, terminators included,   *)
(* of the added strings that are a proper suffix of no added string.       *)
(***************************************************************************)
C5_SuffixSharing ==
  \A i \in Live :
    (merger[i].kind = "string" /\ Settled(i)) =>
      /\ \A s2 \in AddedStrings(i) \ Stored(i) :
           \E s1 \in Stored(i) :
             /\ ProperSuffix(s2, s1)
             /\ StringOffset(i, s2)
                  = StringOffset(i, s1) + Width(i) * (Len(s1) - Len(s2))
      /\ merger[i].data_size = Width(i) * SumLen(Stored(i))

\* Three strings, each a proper suffix of the next, were laid out.
C5_Witness ==
  \E i \in Live :
    /\ merger[i].kind = "string" /\ Settled(i)
    /\ \E s1 \in AddedStrings(i), s2 \in AddedStrings(i), s3 \in AddedStrings(i) :
         ProperSuffix(s3, s2) /\ ProperSuffix(s2, s1)
    /\ merger[i].data_size = 3 * Width(i)

(***************************************************************************)
(* C6.  After set_address, two added strings with the same code units, the *)
(* terminator included, have the same output address wherever they came    *)
(* from, and no string content is stored twice: the size is at most the    *)
(* total length of the distinct strings, and what is written has that size.*)
(***************************************************************************)
C6_StringDedup ==
  \A i \in Live :
    (merger[i].kind = "string" /\ Settled(i)) =>
      /\ \A a \in Items(i), b \in Items(i), base \in Bases :
           StringOf(i, a) = StringOf(i, b) =>
             LET ra == Lookup(i, a.sec, a.offset, base)
                 rb == Lookup(i, b.sec, b.offset, base)
             IN  ra.found /\ rb.found /\ ra.output = rb.output
      /\ \A s \in AddedStrings(i), t \in AddedStrings(i) :
           (s # t /\ Len(s) = Len(t)) => StringOffset(i, s) # StringOffset(i, t)
      /\ merger[i].data_size <= Width(i) * SumLen(AddedStrings(i))
      /\ file[i].written => Len(file[i].bytes) = merger[i].data_size

\* The same non-empty string came from two objects at different offsets.
C6_Witness ==
  \E i \in Live :
    /\ merger[i].kind = "string" /\ Settled(i)
    /\ \E a \in Items(i), b \in Items(i) :
         /\ a.sec.object # b.sec.object /\ a.offset # b.offset
         /\ StringOf(i, a) = StringOf(i, b) /\ Len(StringOf(i, a)) >= 2

(***************************************************************************)
(* Sizes of the constant sections handed to add_input_section.             *)
(***************************************************************************)
RECURSIVE SumCalls(_, _)
SumCalls(h, j) ==
  IF j > Len(h) THEN 0
  ELSE (IF h[j].op = "add" THEN Len(SecBytes(h[j].sec)) ELSE 0)
         + SumCalls(h, j + 1)

RECURSIVE SumAccepted(_, _, _)
SumAccepted(h, j, es) ==
  IF j > Len(h) THEN 0
  ELSE (IF h[j].op = "add" /\ Len(SecBytes(h[j].sec)) % es = 0
        THEN Len(SecBytes(h[j].sec)) ELSE 0)
         + SumAccepted(h, j + 1, es)

NoDuplicates(i) ==
  \A a \in Items(i), b \in Items(i) : a # b => ItemBytes(a) # ItemBytes(b)

(***************************************************************************)
(* C7 as claimed.  The size set_address sets for a constant merger is at   *)
(* most the sum of the sizes of all sections add_input_section was called  *)
(* with, and equals it exactly when no two input slots hold the same bytes.*)
(***************************************************************************)
C7_SizeOfAllPassed ==
  \A i \in Live :
    (merger[i].kind = "data" /\ Settled(i)) =>
      /\ merger[i].data_size <= SumCalls(hist[i], 1)
      /\ (merger[i].data_size = SumCalls(hist[i], 1)) <=> NoDuplicates(i)

(***************************************************************************)
(* C7 as amended.  The size set_address sets for a constant merger is at   *)
(* most the sum of the sizes of the sections add_input_section accepted    *)
(* (a section whose size is no multiple of entsize is rejected and counts  *)
(* for nothing), and equals it exactly when no two slots of those sections *)
(* hold the same bytes.                                                    *)
(***************************************************************************)
C7_SizeBound ==
  \A i \in Live :
    (merger[i].kind = "data" /\ Settled(i)) =>
      LET sum == SumAccepted(hist[i], 1, Width(i))
      IN  /\ merger[i].data_size <= sum
          /\ (merger[i].data_size = sum) <=> NoDuplicates(i)
          /\ last.op = "set_address" /\ last.inst = i
               => last.val = merger[i].data_size

\* A merger of two-byte constants was given a rejected section and distinct
\* constants, and one that was given a duplicate is covered as well.
C7_Witness ==
  \E i \in Live :
    /\ merger[i].kind = "data" /\ Settled(i) /\ Width(i) = 2
    /\ AddedSections(i) # AcceptedSections(i)
    /\ Cardinality(Items(i)) >= 2
    /\ NoDuplicates(i)

Ordered(h) ==
  \A j \in 1..Len(h), k \in 1..Len(h) :
    /\ (j < k /\ h[j].op = "set_address") => h[k].op = "write"
    /\ (j < k /\ h[j].op = "write") => h[k].op = "write"
    /\ h[k].op = "write" => \E x \in 1..(k - 1) : h[x].op = "set_address"

C9_PhaseOrder ==
  [][/\ (\/ last'.op = "add" /\ merger[last'.inst].phase = "Addressed"
         \/ last'.op = "write" /\ merger[last'.inst].phase = "Collecting")
          => /\ failed'
             /\ merger' = merger /\ stringpool_' = stringpool_ /\ file' = file
     /\ ~failed' => \A i \in Live : Ordered(hist'[i])]_vars

\* add_input_section was called on a merger that had written its data.
C9_Witness ==
  /\ failed /\ last.op = "add"
  /\ merger[last.inst].phase = "Addressed"
  /\ file[last.inst].written

(***************************************************************************)
(* C10.  Two mergers driven together: however their calls interleave,      *)
(* each holds the map and wrote the bytes it would have had it been driven *)
(* alone with its own calls, and the pool of a string merger holds the     *)
(* strings of its own sections only.                                       *)
(***************************************************************************)
RECURSIVE Replay(_, _, _)
Replay(st, h, j) ==
  IF j > Len(h) THEN st
  ELSE IF h[j].op = "add"
       THEN LET r == add_input_section(st.m, st.sp, h[j].sec, SecBytes(h[j].sec))
            IN  Replay([st EXCEPT !.m = r.m, !.sp = r.sp], h, j + 1)
  ELSE IF h[j].op = "set_address"
       THEN LET r == set_address(st.m, st.sp,
                                 CHOOSE o \in Orders(st.m, st.sp) : TRUE)
            IN  Replay([st EXCEPT !.m = r.m, !.sp = r.sp], h, j + 1)
  ELSE LET r == write(st.m, st.sp)
       IN  Replay([st EXCEPT !.file = [written |-> TRUE, bytes |-> r.bytes]],
                  h, j + 1)

Alone(i) ==
  Replay([m |-> NewMerger(merger[i].kind, Width(i)), sp |-> NewStringpool,
          file |-> [written |-> FALSE, bytes |-> <<>>]], hist[i], 1)

C10_Independence ==
  \A i \in Live :
    ~failed =>
      /\ merger[i].merge_map_ = Alone(i).m.merge_map_
      /\ file[i] = Alone(i).file
      /\ merger[i].kind = "string"
           => stringpool_[PoolOf(i)].strings = AddedStrings(i)

\* Two string mergers, each given a section of its own, wrote different data.
C10_Witness ==
  /\ Live = Insts /\ ~failed
  /\ \A i \in Insts : merger[i].kind = "string" /\ file[i].written
  /\ AddedSections(1) # AddedSections(2)
  /\ file[1].bytes # file[2].bytes
  /\ \A i \in Insts : Len(file[i].bytes) > 0

(***************************************************************************)
(* The keys a call is about to record, read off the state before the call. *)
(***************************************************************************)
\* The keys of the slots of section sec, for entries of es bytes.
SlotKeys(sec, bytes, es) ==
  {[object |-> sec.object, shndx |-> sec.shndx, offset |-> o] :
     o \in {x \in 0..(Len(bytes) - 1) : x % es = 0}}

\* No section was handed to add_input_section twice in the calls h.
NoRepeat(h) ==
  \A j \in 1..Len(h), k \in 1..Len(h) :
    (j < k /\ h[j].op = "add" /\ h[k].op = "add") => h[j].sec # h[k].sec

\* No Merged_string of m has the place of another.
DistinctPlaces(m) ==
  \A j \in 1..Len(m.merged_strings_), k \in 1..Len(m.merged_strings_) :
    j # k =>
      <<m.merged_strings_[j].object, m.merged_strings_[j].shndx,
        m.merged_strings_[j].offset>>
        # <<m.merged_strings_[k].object, m.merged_strings_[k].shndx,
            m.merged_strings_[k].offset>>

\* The mappings of m are kept by the step.
MappingsKept(i) ==
  \A k \in DOMAIN merger[i].merge_map_ :
    /\ k \in DOMAIN merger'[i].merge_map_
    /\ merger'[i].merge_map_[k] = merger[i].merge_map_[k]

\* The step is an add_input_section that a constant merger in its collecting
\* phase accepts; the step is a set_address of a string merger.
DataAddStep ==
  /\ last'.op = "add"
  /\ merger[last'.inst].kind = "data"
  /\ merger[last'.inst].phase = "Collecting"
  /\ Len(contents'[last'.sec].bytes) % merger[last'.inst].entsize_ = 0
StringSetAddressStep ==
  last'.op = "set_address" /\ merger[last'.inst].kind = "string"

\* The keys add_mapping is called with during the step are not in the map,
\* and no two of them are the same.
FreshKeys ==
  /\ DataAddStep =>
       SlotKeys(last'.sec, contents'[last'.sec].bytes,
                merger[last'.inst].entsize_)
         \cap DOMAIN merger[last'.inst].merge_map_ = {}
  /\ StringSetAddressStep =>
       /\ DOMAIN merger[last'.inst].merge_map_ = {}
       /\ DistinctPlaces(merger[last'.inst])

(***************************************************************************)
(* C11 as claimed.  Whatever calls of add_input_section and set_address    *)
(* are made, add_mapping is never called for an (object, shndx, offset)    *)
(* that has a mapping, and no mapping is overwritten.                      *)
(***************************************************************************)
C11_NeverRemapped ==
  [][/\ FreshKeys
     /\ \A i \in Live : MappingsKept(i)]_vars

(***************************************************************************)
(* C11 as amended.  As long as no section is handed to add_input_section   *)
(* twice on one merger, add_mapping is never called for an (object, shndx, *)
(* offset) that has a mapping.  When it is called for one (a section with  *)
(* entries was added a second time), the assertion fails: in               *)
(* add_input_section of a constant merger, in set_address of a string      *)
(* merger.  In either case no mapping is removed or overwritten.           *)
(***************************************************************************)
C11_KeysUnique ==
  [][/\ ((DataAddStep \/ StringSetAddressStep)
           /\ \A i \in Live : NoRepeat(hist'[i])) => (FreshKeys /\ ~failed')
     /\ ((DataAddStep \/ StringSetAddressStep) /\ ~FreshKeys) => failed'
     /\ \A i \in Live : MappingsKept(i)]_vars

\* Two sections of two entries or more, holding an entry in common, were
\* added once each to a constant merger.
C11_Witness ==
  \E i \in Live :
    /\ merger[i].kind = "data" /\ ~failed /\ NoRepeat(hist[i])
    /\ AcceptedSections(i) = Sections
    /\ \A sec \in Sections : Len(SecBytes(sec)) >= 2 * Width(i)
    /\ Cardinality(DOMAIN merger[i].merge_map_)
         > Cardinality(merger[i].hashtable_)

(***************************************************************************)
(* The entries a constant merger was given, read off the calls made.       *)
(***************************************************************************)
\* The es-byte slots of a section, in order.
SlotsOf(bytes, es) ==
  [j \in 1..(Len(bytes) \div es) |-> Bytes(bytes, (j - 1) * es, es)]

\* The slots of the accepted sections of the calls h from call j on, in the
\* order of the calls.
RECURSIVE SeenEntries(_, _, _)
SeenEntries(h, j, es) ==
  IF j > Len(h) THEN <<>>
  ELSE (IF h[j].op = "add" /\ Len(SecBytes(h[j].sec)) % es = 0
        THEN SlotsOf(SecBytes(h[j].sec), es) ELSE <<>>)
         \o SeenEntries(h, j + 1, es)

\* The entries of es with every entry dropped that stands earlier in es.
RECURSIVE FirstSeen(_)
FirstSeen(es) ==
  IF es = <<>> THEN <<>>
  ELSE LET front == FirstSeen(SubSeq(es, 1, Len(es) - 1))
           e     == es[Len(es)]
       IN  IF \E j \in 1..Len(front) : front[j] = e THEN front
           ELSE Append(front, e)

\* The accumulated buffer: the len_ bytes at p_.
Buffer(i) == SubSeq(merger[i].p_, 1, merger[i].len_)

(***************************************************************************)
(* C12.  After any calls of add_input_section on a constant merger that    *)
(* failed no assertion, the len_ bytes of the buffer are the distinct      *)
(* entries seen so far, each once, in the order in which they were first   *)
(* seen.                                                                   *)
(***************************************************************************)
C12_BufferContent ==
  \A i \in Live :
    (merger[i].kind = "data" /\ ~failed) =>
      LET seen == SeenEntries(hist[i], 1, Width(i))
      IN  /\ Buffer(i) = Flatten(FirstSeen(seen))
          /\ \A j \in 1..Len(seen) :
               Cardinality({k \in 0..(merger[i].len_ - 1) :
                              /\ k % Width(i) = 0
                              /\ Bytes(Buffer(i), k, Width(i)) = seen[j]}) = 1

\* A merger of two-byte constants saw an entry twice and then a new entry.
C12_Witness ==
  \E i \in Live :
    /\ merger[i].kind = "data" /\ ~failed /\ Width(i) = 2
    /\ LET seen == SeenEntries(hist[i], 1, Width(i))
       IN  /\ Len(seen) >= 3
           /\ seen[1] = seen[2] /\ seen[3] # seen[1]
           /\ merger[i].len_ = 2 * Width(i)

(***************************************************************************)
(* C13.  After add_input_section accepted a section of n entries on a      *)
(* constant merger, the map holds, of that section, exactly the n keys     *)
(* (object, shndx, j * entsize) with 0 <= j < n, each mapped to a slot of  *)
(* the buffer that holds the entry's bytes, whether the entry was new or a *)
(* duplicate; output_address finds each of them and fails for every offset *)
(* of the section that is no multiple of entsize.                          *)
(***************************************************************************)
C13_EverySlotRecorded ==
  \A i \in Live :
    (merger[i].kind = "data" /\ ~failed) =>
      \A sec \in AcceptedSections(i) :
        LET mm   == merger[i].merge_map_
            n    == Len(SecBytes(sec)) \div Width(i)
            keys == {[object |-> sec.object, shndx |-> sec.shndx,
                      offset |-> j * Width(i)] : j \in 0..(n - 1)}
        IN  /\ {k \in DOMAIN mm : k.object = sec.object /\ k.shndx = sec.shndx}
                 = keys
            /\ \A k \in keys :
                 /\ mm[k] % Width(i) = 0 /\ mm[k] < merger[i].len_
                 /\ Bytes(Buffer(i), mm[k], Width(i))
                      = Bytes(SecBytes(sec), k.offset, Width(i))
            /\ \A offset \in 0..(MaxUnits * 2), base \in Bases :
                 Lookup(i, sec, offset, base).found
                   <=> (offset % Width(i) = 0 /\ offset < Len(SecBytes(sec)))

\* output_address failed for an odd offset inside a section of two-byte
\* constants one of whose entries was a duplicate.
C13_Witness ==
  /\ last.op = "output_address" /\ ~last.ret /\ ~failed
  /\ merger[last.inst].kind = "data" /\ Width(last.inst) = 2
  /\ last.sec \in AcceptedSections(last.inst)
  /\ last.offset % 2 = 1 /\ last.offset < Len(SecBytes(last.sec))
  /\ Cardinality(DOMAIN merger[last.inst].merge_map_)
       > Cardinality(merger[last.inst].hashtable_)

(***************************************************************************)
(* The places strings were added from.                                     *)
(***************************************************************************)
\* The (object, shndx, offset) of the Merged_strings of merger i.
Places(i) ==
  {[object |-> merger[i].merged_strings_[j].object,
    shndx  |-> merger[i].merged_strings_[j].shndx,
    offset |-> merger[i].merged_strings_[j].offset] :
     j \in 1..Len(merger[i].merged_strings_)}

\* The same, read off the input sections.
ItemPlaces(i) ==
  {[object |-> it.sec.object, shndx |-> it.sec.shndx, offset |-> it.offset] :
     it \in Items(i)}

\* A string merger that has not set its address: one Merged_string for each
\* string added (as often as its section was added), no mapping, no offset in
\* the pool; output_address fails.
StringCollecting(i) ==
  /\ Places(i) = ItemPlaces(i)
  /\ NoRepeat(hist[i]) =>
       Len(merger[i].merged_strings_) = Cardinality(Items(i))
  /\ merger[i].merge_map_ = EmptyMap
  /\ stringpool_[PoolOf(i)].offsets = NoOffsets
  /\ \A sec \in Sections, offset \in 0..(MaxUnits * 2), base \in Bases :
       ~Lookup(i, sec, offset, base).found

\* A string merger that has set its address: one mapping for each
\* Merged_string, to the offset the pool gave its string.
StringAddressed(i) ==
  /\ DOMAIN merger[i].merge_map_ = Places(i)
  /\ Cardinality(DOMAIN merger[i].merge_map_) = Len(merger[i].merged_strings_)
  /\ DOMAIN stringpool_[PoolOf(i)].offsets = stringpool_[PoolOf(i)].strings
  /\ \A j \in 1..Len(merger[i].merged_strings_), base \in Bases :
       LET ms == merger[i].merged_strings_[j]
           r  == do_output_address(merger[i].merge_map_, ms.object, ms.shndx,
                                   ms.offset, base)
       IN  /\ r.found
           /\ r.output = base + stringpool_[PoolOf(i)].offsets[ms.string]
  /\ \A it \in Items(i), base \in Bases :
       Lookup(i, it.sec, it.offset, base).found

StringMergerOK(i) ==
  IF merger[i].phase = "Collecting" THEN StringCollecting(i)
  ELSE StringAddressed(i)

(***************************************************************************)
(* C14.  A string merger fills its map at set_address only.  Before        *)
(* set_address, add_input_section appends one Merged_string for each       *)
(* string and adds no mapping, so output_address fails for every location; *)
(* set_address fixes the offsets of the pool, which happens once, and adds *)
(* one mapping for each Merged_string, so that afterwards output_address   *)
(* finds the start of every string added.                                  *)
(***************************************************************************)
C14_MapAtFinalize ==
  [][\A i \in Live :
       merger[i].kind = "string" =>
         /\ ~failed => StringMergerOK(i)
         /\ ~failed' => StringMergerOK(i)'
         /\ (last'.op = "add" /\ last'.inst = i /\ ~failed') =>
              /\ merger'[i].merge_map_ = EmptyMap
              /\ Len(merger'[i].merged_strings_)
                   >= Len(merger[i].merged_strings_)
         /\ stringpool_'[PoolOf(i)].offsets # stringpool_[PoolOf(i)].offsets =>
              /\ last'.op = "set_address" /\ last'.inst = i
              /\ merger[i].phase = "Collecting"
         /\ merger[i].phase = "Addressed" =>
              /\ merger'[i].phase = "Addressed"
              /\ stringpool_'[PoolOf(i)] = stringpool_[PoolOf(i)]
              /\ merger'[i].merge_map_ = merger[i].merge_map_]_vars

\* After set_address, output_address found a string of a merger that holds
\* more Merged_strings than its pool holds strings.
C14_Witness ==
  /\ last.op = "output_address" /\ last.ret /\ ~failed
  /\ merger[last.inst].kind = "string" /\ Settled(last.inst)
  /\ Len(merger[last.inst].merged_strings_) >= 3
  /\ Cardinality(stringpool_[PoolOf(last.inst)].strings)
       < Len(merger[last.inst].merged_strings_)

(***************************************************************************)
(* The Merged_strings of one section, in the order they were recorded.     *)
(***************************************************************************)
SecStrings(i, sec) ==
  LET OfSec(ms) == ms.object = sec.object /\ ms.shndx = sec.shndx
  IN  SelectSeq(merger[i].merged_strings_, OfSec)

\* The code unit of section sec at byte offset o.
UnitAt(i, sec, o) == Bytes(SecBytes(sec), o, Width(i))

(***************************************************************************)
(* C15.  A string merger splits a section it accepts at every zero code    *)
(* unit.  The Merged_strings of the section, in order, start at offset 0   *)
(* and each at the offset of the one before plus W times its length in     *)
(* code units (the terminator counted), they end where the section ends,   *)
(* each holds the code units found at its offset and no zero code unit but *)
(* its last; a zero code unit at the start of the section or right behind  *)
(* a terminator is a string of its own: the terminator alone.              *)
(***************************************************************************)
C15_StringSplitting ==
  \A i \in Live :
    (merger[i].kind = "string" /\ ~failed /\ NoRepeat(hist[i])) =>
      \A sec \in AcceptedSections(i) :
        LET ss == SecStrings(i, sec)
            W  == Width(i)
            n  == Len(ss)
        IN  /\ (n = 0) <=> (SecBytes(sec) = <<>>)
            /\ n > 0 => /\ ss[1].offset = 0
                        /\ ss[n].offset + W * Len(ss[n].string)
                             = Len(SecBytes(sec))
            /\ \A j \in 1..(n - 1) :
                 ss[j + 1].offset = ss[j].offset + W * Len(ss[j].string)
            /\ \A j \in 1..n :
                 /\ Len(ss[j].string) >= 1
                 /\ \A x \in 1..Len(ss[j].string) :
                      /\ ss[j].string[x]
                           = UnitAt(i, sec, ss[j].offset + (x - 1) * W)
                      /\ IsZero(ss[j].string[x]) <=> (x = Len(ss[j].string))
            /\ \A o \in 0..(Len(SecBytes(sec)) - W) :
                 (/\ o % W = 0
                  /\ IsZero(UnitAt(i, sec, o))
                  /\ (o = 0 \/ IsZero(UnitAt(i, sec, o - W))))
                   => \E j \in 1..n :
                        ss[j].offset = o /\ Len(ss[j].string) = 1

\* A section of two-byte characters that starts with a zero code unit and
\* goes on with a string of two code units.
C15_Witness ==
  \E i \in Live :
    /\ merger[i].kind = "string" /\ ~failed /\ NoRepeat(hist[i]) /\ Width(i) = 2
    /\ \E sec \in AcceptedSections(i) :
         /\ Len(SecBytes(sec)) = 6
         /\ IsZero(UnitAt(i, sec, 0))
         /\ Len(SecStrings(i, sec)) = 2
         /\ Len(SecStrings(i, sec)[2].string) = 2

(***************************************************************************)
(* C16.  Between calls, the buffer and the hash table of a constant merger *)
(* agree: len_ is a multiple of entsize and the keys of the hash table are *)
(* the offsets 0, entsize, ..., len_ - entsize of the slots.  Every key    *)
(* therefore passes the assertion of constant(), and so does every key     *)
(* constant() is called with while a further constant is added, the key of *)
(* a constant that turns out to be a duplicate included.                   *)
(***************************************************************************)
C16_HashtableConsistent ==
  \A i \in Live :
    merger[i].kind = "data" =>
      /\ merger[i].len_ % entsize(merger[i]) = 0
      /\ merger[i].hashtable_
           = {k \in 0..(merger[i].len_ - 1) : k % entsize(merger[i]) = 0}
      /\ \A k \in merger[i].hashtable_ : constant_ok(merger[i], k)
      /\ \A bytes \in ConstantsOf(Width(i)) :
           add_constant(merger[i], bytes).ok

\* A merger of two-byte constants holds two constants; the constant it was
\* given last was a duplicate, whose copy lies behind len_.
C16_Witness ==
  \E i \in Live :
    /\ merger[i].kind = "data" /\ ~failed /\ Width(i) = 2
    /\ Cardinality(merger[i].hashtable_) = 2
    /\ Len(merger[i].p_) > merger[i].len_

(***************************************************************************)
(* C17.  What a constant merger holds only grows.  No call changes a byte  *)
(* of the buffer below len_ (the buffer before the call is a prefix of the *)
(* buffer after it), removes a key of the hash table, or removes or        *)
(* changes a mapping; output_address returns for a slot added earlier the  *)
(* address it returned before the call, set_address included.              *)
(***************************************************************************)
C17_StableOffsets ==
  [][\A i \in Live :
       merger[i].kind = "data" =>
         /\ merger'[i].len_ >= merger[i].len_
         /\ SubSeq(merger'[i].p_, 1, merger[i].len_) = Buffer(i)
         /\ merger[i].hashtable_ \subseteq merger'[i].hashtable_
         /\ MappingsKept(i)
         /\ \A k \in DOMAIN merger[i].merge_map_, base \in Bases :
              do_output_address(merger'[i].merge_map_, k.object, k.shndx,
                                k.offset, base)
                = do_output_address(merger[i].merge_map_, k.object, k.shndx,
                                    k.offset, base)]_vars

\* A constant merger was given two sections, the second holding a constant
\* of the first and a new one, and set its address.
C17_Witness ==
  \E i \in Live :
    /\ merger[i].kind = "data" /\ Settled(i) /\ NoRepeat(hist[i])
    /\ AcceptedSections(i) = Sections
    /\ \A sec \in Sections : SecBytes(sec) # <<>>
    /\ LET first == SlotsOf(SecBytes(hist[i][1].sec), Width(i))
           seen  == SeenEntries(hist[i], 1, Width(i))
       IN  /\ Len(FirstSeen(seen)) > Len(FirstSeen(first))
           /\ Len(seen) > Len(FirstSeen(seen))
           /\ Len(FirstSeen(first)) = Len(first)

(***************************************************************************)
(* C18.  Output_merge_string<Char_type>(addralign) asserts that addralign  *)
(* is at most sizeof(Char_type).  With a larger addralign the assertion    *)
(* fails and nothing can be done with the merger; with any other it holds, *)
(* and the merger is empty, in its collecting phase, and has the entry     *)
(* size sizeof(Char_type).  (In the state after construction last.base is  *)
(* sizeof(Char_type) and last.val is addralign.)                           *)
(***************************************************************************)
StringConstructed ==
  (last.op = "new" /\ merger[last.inst].kind = "string") =>
    /\ failed <=> (last.val > last.base)
    /\ last.ret <=> ~failed
    /\ ~failed =>
         /\ entsize(merger[last.inst]) = last.base
         /\ merger[last.inst] = NewMerger("string", last.base)
         /\ stringpool_[PoolOf(last.inst)] = NewStringpool

C18_AlignmentPrecondition ==
  /\ []StringConstructed
  /\ [][~failed]_vars

\* A merger of two-byte characters was constructed with an alignment of 4.
C18_Witness ==
  /\ last.op = "new" /\ failed
  /\ merger[last.inst].kind = "string"
  /\ last.base = 2 /\ last.val = 4

(***************************************************************************)
(* aarch64_fbsd_fetch_inferior_registers and                               *)
(* aarch64_fbsd_store_inferior_registers, a step for each call of ptrace.  *)
(* A call of ptrace that returns -1 makes perror_with_name throw, which    *)
(* ends the function (pc = "error").                                       *)
(***************************************************************************)
NatAtRest == nat.pc \in {"idle", "done", "error"}

NatCall(op, regnum) ==
  [op |-> op, pc |-> "gregs", regnum |-> regnum,
   regs |-> Uninitialized, fpregs |-> Uninitialized, ptrace |-> <<>>]

Ptrace(request, ret) == [request |-> request, ret |-> ret]

\* The function is entered with REGNUM.
aarch64_fbsd_fetch_inferior_registers(regnum) ==
  /\ NatAtRest
  /\ nat' = NatCall("fetch", regnum)
  /\ UNCHANGED <<inferior, regcache, mergevars>>

\* fetch: the general registers, if REGNUM is -1 or one of them.
fetch_PT_GETREGS ==
  /\ nat.op = "fetch" /\ nat.pc = "gregs"
  /\ IF nat.regnum = -1 \/ getregs_supplies(nat.regnum)
     THEN \E ret \in PtraceResults :
            /\ nat' = [nat EXCEPT
                         !.ptrace = Append(@, Ptrace("PT_GETREGS", ret)),
                         !.regs = IF ret = -1 THEN @ ELSE inferior.gregs,
                         !.pc = IF ret = -1 THEN "error" ELSE "fpregs"]
            /\ regcache' = IF ret = -1 THEN regcache
                           ELSE supply_regset(regcache, aarch64_fbsd_gregset,
                                              nat.regnum, inferior.gregs)
     ELSE /\ nat' = [nat EXCEPT !.pc = "fpregs"]
          /\ regcache' = regcache
  /\ UNCHANGED <<inferior, mergevars>>

\* fetch: the floating point registers, if REGNUM is -1 or one of them.
fetch_PT_GETFPREGS ==
  /\ nat.op = "fetch" /\ nat.pc = "fpregs"
  /\ IF nat.regnum = -1 \/ getfpregs_supplies(nat.regnum)
     THEN \E ret \in PtraceResults :
            /\ nat' = [nat EXCEPT
                         !.ptrace = Append(@, Ptrace("PT_GETFPREGS", ret)),
                         !.fpregs = IF ret = -1 THEN @ ELSE inferior.fpregs,
                         !.pc = IF ret = -1 THEN "error" ELSE "done"]
            /\ regcache' = IF ret = -1 THEN regcache
                           ELSE supply_regset(regcache, aarch64_fbsd_fpregset,
                                              nat.regnum, inferior.fpregs)
     ELSE /\ nat' = [nat EXCEPT !.pc = "done"]
          /\ regcache' = regcache
  /\ UNCHANGED <<inferior, mergevars>>

\* The function is entered with REGNUM.
aarch64_fbsd_store_inferior_registers(regnum) ==
  /\ NatAtRest
  /\ nat' = NatCall("store", regnum)
  /\ UNCHANGED <<inferior, regcache, mergevars>>

\* store going on to PT_SETREGS whatever PT_GETREGS returned.
store_PT_GETREGS_unchecked ==
  /\ nat.op = "store" /\ nat.pc = "gregs"
  /\ IF nat.regnum = -1 \/ getregs_supplies(nat.regnum)
     THEN \E ret \in PtraceResults :
            nat' = [nat EXCEPT
                      !.ptrace = Append(@, Ptrace("PT_GETREGS", ret)),
                      !.regs = inferior.gregs,
                      !.pc = "set_regs"]
     ELSE nat' = [nat EXCEPT !.pc = "fpregs"]
  /\ UNCHANGED <<inferior, regcache, mergevars>>

\* store: read the general registers, if REGNUM is -1 or one of them.
store_PT_GETREGS ==
  /\ nat.op = "store" /\ nat.pc = "gregs"
  /\ IF nat.regnum = -1 \/ getregs_supplies(nat.regnum)
     THEN \E ret \in PtraceResults :
            nat' = [nat EXCEPT
                      !.ptrace = Append(@, Ptrace("PT_GETREGS", ret)),
                      !.regs = IF ret = -1 THEN @ ELSE inferior.gregs,
                      !.pc = IF ret = -1 THEN "error" ELSE "set_regs"]
     ELSE nat' = [nat EXCEPT !.pc = "fpregs"]
  /\ UNCHANGED <<inferior, regcache, mergevars>>

\* store: collect_regset into what was read, and write it back.
store_PT_SETREGS ==
  /\ nat.op = "store" /\ nat.pc = "set_regs"
  /\ LET regs == collect_regset(regcache, aarch64_fbsd_gregset, nat.regnum,
                                nat.regs)
     IN  \E ret \in PtraceResults :
           /\ nat' = [nat EXCEPT
                        !.ptrace = Append(@, Ptrace("PT_SETREGS", ret)),
                        !.regs = regs,
                        !.pc = IF ret = -1 THEN "error" ELSE "fpregs"]
           /\ inferior' = IF ret = -1 THEN inferior
                          ELSE [inferior EXCEPT !.gregs = regs]
  /\ UNCHANGED <<regcache, mergevars>>

\* store: read the floating point registers, if REGNUM is -1 or one of them.
store_PT_GETFPREGS ==
  /\ nat.op = "store" /\ nat.pc = "fpregs"
  /\ IF nat.regnum = -1 \/ getfpregs_supplies(nat.regnum)
     THEN \E ret \in PtraceResults :
            nat' = [nat EXCEPT
                      !.ptrace = Append(@, Ptrace("PT_GETFPREGS", ret)),
                      !.fpregs = IF ret = -1 THEN @ ELSE inferior.fpregs,
                      !.pc = IF ret = -1 THEN "error" ELSE "set_fpregs"]
     ELSE nat' = [nat EXCEPT !.pc = "done"]
  /\ UNCHANGED <<inferior, regcache, mergevars>>

\* store: collect_regset into what was read, and write it back.
store_PT_SETFPREGS ==
  /\ nat.op = "store" /\ nat.pc = "set_fpregs"
  /\ LET fpregs == collect_regset(regcache, aarch64_fbsd_fpregset, nat.regnum,
                                  nat.fpregs)
     IN  \E ret \in PtraceResults :
           /\ nat' = [nat EXCEPT
                        !.ptrace = Append(@, Ptrace("PT_SETFPREGS", ret)),
                        !.fpregs = fpregs,
                        !.pc = IF ret = -1 THEN "error" ELSE "done"]
           /\ inferior' = IF ret = -1 THEN inferior
                          ELSE [inferior EXCEPT !.fpregs = fpregs]
  /\ UNCHANGED <<regcache, mergevars>>

\* gdb attached to an inferior: no merger, any registers.
InitNat ==
  /\ merger = [i \in Insts |-> NoMerger]
  /\ stringpool_ = [q \in Insts |-> NewStringpool]
  /\ contents = [sec \in Sections |-> Unread]
  /\ file = [i \in Insts |-> [written |-> FALSE, bytes |-> <<>>]]
  /\ failed = FALSE
  /\ last = Call("none", 1, NoSection, 0, 0, TRUE, 0)
  /\ hist = [i \in Insts |-> <<>>]
  /\ nat = NatIdle
  /\ inferior \in [gregs  : [aarch64_fbsd_gregset -> RegVals],
                   fpregs : [aarch64_fbsd_fpregset -> RegVals]]
  /\ regcache \in [aarch64_fbsd_gregset \cup aarch64_fbsd_fpregset -> RegVals]

NextNat ==
  \/ \E regnum \in Regnums : aarch64_fbsd_fetch_inferior_registers(regnum)
  \/ fetch_PT_GETREGS
  \/ fetch_PT_GETFPREGS
  \/ \E regnum \in Regnums : aarch64_fbsd_store_inferior_registers(regnum)
  \/ store_PT_GETREGS
  \/ store_PT_SETREGS
  \/ store_PT_GETFPREGS
  \/ store_PT_SETFPREGS

SpecNat == InitNat /\ [][NextNat]_vars

(***************************************************************************)
(* C19.  aarch64_fbsd_store_inferior_registers reads a register set before *)
(* it writes it.  The requests it has made are, in this order, PT_GETREGS  *)
(* and PT_SETREGS if regnum is -1 or in [X0, CPSR], then PT_GETFPREGS and  *)
(* PT_SETFPREGS if regnum is -1 or in [V0, FPCR], up to the first that     *)
(* failed: a SET follows the GET of its set, which succeeded; a request    *)
(* that fails is the last one made; and for a regnum outside both ranges   *)
(* and not -1 no request is made.                                          *)
(***************************************************************************)
StoreRequests(regnum) ==
  (IF regnum = -1
        \/ (regnum >= AARCH64_X0_REGNUM /\ regnum <= AARCH64_CPSR_REGNUM)
   THEN <<"PT_GETREGS", "PT_SETREGS">> ELSE <<>>)
    \o (IF regnum = -1
             \/ (regnum >= AARCH64_V0_REGNUM /\ regnum <= AARCH64_FPCR_REGNUM)
        THEN <<"PT_GETFPREGS", "PT_SETFPREGS">> ELSE <<>>)

GetOf(request) ==
  IF request = "PT_SETREGS" THEN "PT_GETREGS" ELSE "PT_GETFPREGS"

C19_StoreReadsBeforeWrite ==
  nat.op = "store" =>
    LET log      == nat.ptrace
        n        == Len(log)
        expected == StoreRequests(nat.regnum)
    IN  /\ n <= Len(expected)
        /\ \A j \in 1..n : log[j].request = expected[j]
        /\ \A j \in 1..n :
             log[j].request \in {"PT_SETREGS", "PT_SETFPREGS"} =>
               /\ j > 1
               /\ log[j - 1].request = GetOf(log[j].request)
               /\ log[j - 1].ret = 0
        /\ \A j \in 1..(n - 1) : log[j].ret = 0
        /\ (n > 0 /\ log[n].ret = -1) <=> (nat.pc = "error")
        /\ nat.pc = "done" => n = Len(expected)
        /\ (nat.regnum # -1 /\ expected = <<>>) => n = 0

\* Storing all registers, the general registers were written and reading
\* the floating point registers failed.
C19_Witness ==
  /\ nat.op = "store" /\ nat.pc = "error" /\ nat.regnum = -1
  /\ Len(nat.ptrace) = 3
  /\ nat.ptrace[3] = Ptrace("PT_GETFPREGS", -1)
  /\ inferior.gregs = [r \in aarch64_fbsd_gregset |-> regcache[r]]

====
